---- MODULE Spec2Model ----
(***************************************************************************)
(* Model of the two SARIF-to-HTML report scripts                           *)
(*   .github/scripts/codeql-sarif-to-html.js  (positional arguments only)  *)
(*   .github/codeql/codeql-sarif-to-html.js   (reads codeql-config.yml)    *)
(*                                                                         *)
(* A JavaScript string is a sequence of one-character strings.  A          *)
(* JavaScript value that may be undefined is a record [t, s]: t is         *)
(* "undefined" or "string" and s is the string's characters.               *)
(***************************************************************************)
EXTENDS Integers, Sequences, FiniteSets, TLC

(***************************************************************************)
(* Strings and JavaScript values                                           *)
(***************************************************************************)
Undefined == [t |-> "undefined", s |-> <<>>]
Str(chars) == [t |-> "string", s |-> chars]

\* JavaScript truthiness of an undefined-or-string value: '' is falsy.
Truthy(v) == v.t = "string" /\ v.s # <<>>

\* a || b
OrElse(a, b) == IF Truthy(a) THEN a ELSE b

\* String(v), as used for a property key and in a template literal.
ToStr(v) == IF v.t = "undefined" THEN <<"u","n","d","e","f","i","n","e","d">> ELSE v.s

StartsWith(s, p) == Len(s) >= Len(p) /\ SubSeq(s, 1, Len(p)) = p
EndsWith(s, p) == Len(s) >= Len(p) /\ SubSeq(s, Len(s) - Len(p) + 1, Len(s)) = p

RECURSIVE ReplaceAll(_, _, _)
\* s.replace(/c/g, rep) for a one-character pattern c.
ReplaceAll(s, c, rep) ==
  IF s = <<>> THEN <<>>
  ELSE (IF Head(s) = c THEN rep ELSE <<Head(s)>>) \o ReplaceAll(Tail(s), c, rep)

AmpEntity == <<"&","a","m","p",";">>
LtEntity == <<"&","l","t",";">>
GtEntity == <<"&","g","t",";">>
QuotEntity == <<"&","q","u","o","t",";">>

\* A plausible slip: the '&' pass runs last and re-escapes the entities.
escapeHtmlAmpLast(v) ==
  IF v.t = "undefined" THEN <<>>
  ELSE ReplaceAll(ReplaceAll(ReplaceAll(ReplaceAll(v.s,
         "<", LtEntity), ">", GtEntity), "\"", QuotEntity), "&", AmpEntity)

escapeHtml(v) ==
  IF v.t = "undefined" THEN <<>>
  ELSE ReplaceAll(ReplaceAll(ReplaceAll(ReplaceAll(v.s,
         "&", AmpEntity), "<", LtEntity), ">", GtEntity), "\"", QuotEntity)

\* Index of the first '>' of s at or after position i, 0 when there is none.
RECURSIVE FirstGt(_, _)
FirstGt(s, i) ==
  IF i > Len(s) THEN 0 ELSE IF s[i] = ">" THEN i ELSE FirstGt(s, i + 1)

\* markdown.replace(/<[^>]+>/g, ''), scanning from position i.
RECURSIVE StripTagsFrom(_, _)
StripTagsFrom(s, i) ==
  IF i > Len(s) THEN <<>>
  ELSE LET j == FirstGt(s, i + 1)
       IN IF s[i] = "<" /\ j >= i + 2
          THEN StripTagsFrom(s, j + 1)
          ELSE <<s[i]>> \o StripTagsFrom(s, i + 1)

StripTags(s) == StripTagsFrom(s, 1)

(***************************************************************************)
(* SARIF result accessors.  A result is a record                            *)
(*   [isNull, ruleId, hasRule, ruleRefId, ruleRefLevel, level, msg, loc]    *)
(* msg is [t, s, text, markdown] with t in {"undefined","string","object"}; *)
(* loc is [hasPhys, uri, hasRegion, startLine, startColumn], numbers        *)
(* written as their decimal digits.                                         *)
(***************************************************************************)
LvlError == <<"e","r","r","o","r">>
LvlWarning == <<"w","a","r","n","i","n","g">>
LvlNote == <<"n","o","t","e">>
Dash == <<"-">>

getLevel(result) ==
  OrElse(result.level,
         OrElse(IF result.hasRule THEN result.ruleRefLevel ELSE Undefined,
                Str(LvlWarning)))

getMessage(result) ==
  LET msg == result.msg
  IN IF msg.t = "undefined" \/ (msg.t = "string" /\ msg.s = <<>>) THEN Str(<<>>)
     ELSE IF msg.t = "string" THEN Str(msg.s)
     ELSE OrElse(msg.text,
                 OrElse(IF Truthy(msg.markdown)
                        THEN Str(StripTags(msg.markdown.s))
                        ELSE msg.markdown,
                        Str(<<>>)))

getLocation(result) ==
  LET loc == result.loc
  IN IF ~loc.hasPhys THEN Str(Dash)
     ELSE LET file == OrElse(loc.uri, Str(Dash))
          IN IF loc.hasRegion
             THEN LET part == ToStr(OrElse(loc.startLine, Str(Dash)))
                              \o (IF loc.startColumn.t # "undefined"
                                  THEN <<":">> \o ToStr(loc.startColumn)
                                  ELSE <<>>)
                  IN Str(escapeHtml(file) \o <<":">> \o part)
             ELSE Str(escapeHtml(file))

getRuleId(result) ==
  OrElse(result.ruleId,
         OrElse(IF result.hasRule THEN result.ruleRefId ELSE Undefined,
                Str(Dash)))

(***************************************************************************)
(* collectResults: the body of the per-file try block.                     *)
(* A rule is [id, text] (text is shortDescription.text); a run is          *)
(* [isNull, rules, results]; a located file is                             *)
(* [path, badJson, err, isNull, runs], err being the message of the error  *)
(* raised while the file is handled, if one is raised.                     *)
(***************************************************************************)
ParseErrorName == <<"P","a","r","s","e"," ","e","r","r","o","r">>

\* ruleMap[result.ruleId]?.shortDescription?.text: the map is filled in list
\* order under the key String(r.id), so the last rule with the key wins.
RECURSIVE ruleText(_, _)
ruleText(rules, key) ==
  IF rules = <<>> THEN Undefined
  ELSE LET r == rules[Len(rules)]
       IN IF ToStr(r.id) = key THEN r.text
          ELSE ruleText(SubSeq(rules, 1, Len(rules) - 1), key)

makeRow(result, rules) ==
  [ruleId   |-> getRuleId(result),
   level    |-> getLevel(result),
   message  |-> getMessage(result),
   location |-> getLocation(result),
   name     |-> OrElse(ruleText(rules, ToStr(result.ruleId)), result.ruleId)]

errorRow(file) ==
  [ruleId   |-> Str(Dash),
   level    |-> Str(LvlError),
   message  |-> Str(file.err),
   location |-> Str(file.path),
   name     |-> Str(ParseErrorName)]

\* for (const result of run.results || []): a null entry throws at
\* result.ruleId, after the rows of the entries before it were pushed.
RECURSIVE pushResults(_, _, _)
pushResults(results, rules, acc) ==
  IF results = <<>> THEN [rows |-> acc, threw |-> FALSE]
  ELSE IF Head(results).isNull THEN [rows |-> acc, threw |-> TRUE]
  ELSE pushResults(Tail(results), rules, Append(acc, makeRow(Head(results), rules)))

\* for (const run of sarif.runs || []): a null run throws at run.tool.
RECURSIVE pushRuns(_, _)
pushRuns(runs, acc) ==
  IF runs = <<>> THEN [rows |-> acc, threw |-> FALSE]
  ELSE IF Head(runs).isNull THEN [rows |-> acc, threw |-> TRUE]
  ELSE LET r == pushResults(Head(runs).results, Head(runs).rules, acc)
       IN IF r.threw THEN r ELSE pushRuns(Tail(runs), r.rows)

\* A plausible slip: the catch branch gives up on the rows collected so far.
tryFileDropping(file, acc) ==
  IF file.badJson \/ file.isNull THEN <<errorRow(file)>>
  ELSE LET r == pushRuns(file.runs, acc)
       IN IF r.threw THEN Append(r.rows, errorRow(file)) ELSE r.rows

\* One iteration of the loop over files: try { ... } catch (e) { rows.push }.
\* JSON.parse throws on invalid text; sarif.runs throws on a null document.
tryFile(file, acc) ==
  IF file.badJson \/ file.isNull THEN Append(acc, errorRow(file))
  ELSE LET r == pushRuns(file.runs, acc)
       IN IF r.threw THEN Append(r.rows, errorRow(file)) ELSE r.rows

(***************************************************************************)
(* The severity sort                                                       *)
(***************************************************************************)
KeyConstructor == <<"c","o","n","s","t","r","u","c","t","o","r">>
KeyToString == <<"t","o","S","t","r","i","n","g">>
KeyValueOf == <<"v","a","l","u","e","O","f">>
KeyProto == <<"_","_","p","r","o","t","o","_","_">>

\* Keys that every object literal inherits from Object.prototype (the ones
\* the model's inputs use): order[k] and levelClass[k] are not undefined.
ObjectProtoKeys == {KeyConstructor, KeyToString, KeyValueOf, KeyProto}

\* String(Object.prototype[k]) for k in ObjectProtoKeys.
inheritedText(k) ==
  IF k = KeyProto
  THEN <<"[","o","b","j","e","c","t"," ","O","b","j","e","c","t","]">>
  ELSE <<"f","u","n","c","t","i","o","n"," ">>
       \o (IF k = KeyConstructor THEN <<"O","b","j","e","c","t">> ELSE k)
       \o <<"(",")"," ","{"," ","[","n","a","t","i","v","e"," ","c","o","d","e","]"," ","}">>

\* order[level] ?? 3 is a number unless the key is inherited.
rankIsNaN(level) == ToStr(level) \in ObjectProtoKeys

rank(level) ==
  LET k == ToStr(level)
  IN IF k = LvlError THEN 0
     ELSE IF k = LvlWarning THEN 1
     ELSE IF k = LvlNote THEN 2
     ELSE 3

\* The comparator's result as sort sees it: NaN is treated as +0.
compare(a, b) ==
  IF rankIsNaN(a.level) \/ rankIsNaN(b.level) THEN 0
  ELSE rank(a.level) - rank(b.level)

\* Stable insertion of x into the sorted list s: after every element that
\* does not compare greater than x.
RECURSIVE insertRow(_, _)
insertRow(s, x) ==
  IF s = <<>> THEN <<x>>
  ELSE IF compare(s[Len(s)], x) > 0
       THEN Append(insertRow(SubSeq(s, 1, Len(s) - 1), x), s[Len(s)])
       ELSE Append(s, x)

RECURSIVE stableSort(_)
stableSort(s) ==
  IF s = <<>> THEN <<>>
  ELSE insertRow(stableSort(SubSeq(s, 1, Len(s) - 1)), s[Len(s)])

\* The comparator is a consistent ordering of the rows unless a NaN row
\* (equal to everything) sits among rows of different ranks.
consistentComparator(s) ==
  \/ \A i \in 1..Len(s) : ~rankIsNaN(s[i].level)
  \/ \A i, j \in 1..Len(s) :
       (~rankIsNaN(s[i].level) /\ ~rankIsNaN(s[j].level))
         => rank(s[i].level) = rank(s[j].level)

permutationsOf(s) ==
  {[i \in 1..Len(s) |-> s[p[i]]] :
     p \in {q \in [1..Len(s) -> 1..Len(s)] :
              \A i, j \in 1..Len(s) : i # j => q[i] # q[j]}}

\* rows.sort(comparator): the stable sort when the comparator is consistent;
\* otherwise the order is implementation-defined, any permutation.
sortOutcomes(s) ==
  IF consistentComparator(s) THEN {stableSort(s)} ELSE permutationsOf(s)

(***************************************************************************)
(* generateHtml: the interpolated parts of each <tr> and of the page.      *)
(***************************************************************************)
ClassCritical == <<"c","r","i","t","i","c","a","l">>
ClassHigh == <<"h","i","g","h">>
ClassMedium == <<"m","e","d","i","u","m">>
ClassLow == <<"l","o","w">>
LabelError == <<"E","r","r","o","r">>
LabelWarning == <<"W","a","r","n","i","n","g">>
LabelNote == <<"N","o","t","e">>

\* levelClass[r.level] || 'low'
levelClassOf(level) ==
  LET k == ToStr(level)
  IN IF k = LvlError THEN ClassCritical
     ELSE IF k = LvlWarning THEN ClassHigh
     ELSE IF k = LvlNote THEN ClassMedium
     ELSE IF k \in ObjectProtoKeys THEN inheritedText(k)
     ELSE ClassLow

\* levelLabel[r.level] || r.level
levelLabelOf(level) ==
  LET k == ToStr(level)
  IN IF k = LvlError THEN LabelError
     ELSE IF k = LvlWarning THEN LabelWarning
     ELSE IF k = LvlNote THEN LabelNote
     ELSE IF k \in ObjectProtoKeys THEN inheritedText(k)
     ELSE k

tableRow(r) ==
  [class    |-> levelClassOf(r.level),
   ruleId   |-> escapeHtml(r.ruleId),
   severity |-> levelLabelOf(r.level),
   name     |-> escapeHtml(r.name),
   message  |-> escapeHtml(r.message),
   location |-> ToStr(r.location)]

\* count is ${rows.length}; placeholder is the "No results." row, used when
\* the joined <tr> text is the empty string.
generateHtml(rs) ==
  [count       |-> Len(rs),
   trs         |-> [i \in 1..Len(rs) |-> tableRow(rs[i])],
   placeholder |-> Len(rs) = 0]

(***************************************************************************)
(* findSarifFiles.  A directory is [exists, entries]; an entry is          *)
(* [name, isDir, children, content]: children are the entries of a         *)
(* sub-directory, content is [badJson, err, isNull, runs] for a file.      *)
(***************************************************************************)
SarifSuffix == <<".","s","a","r","i","f">>

\* path.join(dir, name)
pathJoin(dir, name) == dir \o <<"/">> \o name

located(path, content) ==
  [path |-> path, badJson |-> content.badJson, err |-> content.err,
   isNull |-> content.isNull, runs |-> content.runs]

\* The loop over fs.readdirSync(dir), in the order the entries are returned.
RECURSIVE walk(_, _)
walk(dir, entries) ==
  IF entries = <<>> THEN <<>>
  ELSE LET e == Head(entries)
           full == pathJoin(dir, e.name)
       IN (IF e.isDir THEN walk(full, e.children)
           ELSE IF EndsWith(e.name, SarifSuffix) THEN <<located(full, e.content)>>
           ELSE <<>>)
          \o walk(dir, Tail(entries))

findSarifFiles(dir, d) == IF ~d.exists THEN <<>> ELSE walk(dir, d.entries)

(***************************************************************************)
(* readHtmlReportConfig (config-reading variant).  A config file on disk   *)
(* is [exists, lines], the lines being content.split(/\r?\n/).             *)
(***************************************************************************)
IsSpace(c) == c \in {" ", "\t"}

\* \w
WordChars ==
  {"a","b","c","d","e","f","g","h","i","j","k","l","m","n","o","p","q","r",
   "s","t","u","v","w","x","y","z","A","B","C","D","E","F","G","H","I","J",
   "K","L","M","N","O","P","Q","R","S","T","U","V","W","X","Y","Z","0","1",
   "2","3","4","5","6","7","8","9","_"}

RECURSIVE trimStart(_)
trimStart(s) ==
  IF s # <<>> /\ IsSpace(Head(s)) THEN trimStart(Tail(s)) ELSE s

RECURSIVE trimEnd(_)
trimEnd(s) ==
  IF s # <<>> /\ IsSpace(s[Len(s)]) THEN trimEnd(SubSeq(s, 1, Len(s) - 1)) ELSE s

trim(s) == trimEnd(trimStart(s))

dropFirst(s, n) == SubSeq(s, n + 1, Len(s))

KeyHtmlReport == <<"h","t","m","l","-","r","e","p","o","r","t">>
KeySarifDir == <<"s","a","r","i","f","-","d","i","r">>
KeyOutput == <<"o","u","t","p","u","t">>

\* /^html-report\s*:/.test(line.trim())
isHeader(line) ==
  LET t == trim(line)
  IN /\ StartsWith(t, KeyHtmlReport)
     /\ LET rest == trimStart(dropFirst(t, Len(KeyHtmlReport)))
        IN rest # <<>> /\ Head(rest) = ":"

\* line.match(/^\s*key\s*:\s*(.+)/): [matched, value], value being
\* m[1].trim().  When only white space follows the colon, the greedy \s*
\* gives one character back to (.+) and the trimmed capture is ''.
keyMatch(line, key) ==
  LET a == trimStart(line)
  IN IF ~StartsWith(a, key) THEN [matched |-> FALSE, value |-> <<>>]
     ELSE LET b == trimStart(dropFirst(a, Len(key)))
          IN IF b = <<>> \/ Head(b) # ":" THEN [matched |-> FALSE, value |-> <<>>]
             ELSE IF Tail(b) = <<>> THEN [matched |-> FALSE, value |-> <<>>]
             ELSE [matched |-> TRUE, value |-> trim(Tail(b))]

\* const topLevel = /^\w/.test(line) && !line.startsWith(' ');
\* if (topLevel && !line.trim().startsWith('#')) break;
leavesSection(line) ==
  /\ line # <<>> /\ Head(line) \in WordChars /\ ~StartsWith(line, <<" ">>)
  /\ ~StartsWith(trim(line), <<"#">>)

\* The for loop over the lines; cfg is the config object built so far.
RECURSIVE scanLines(_, _, _)
scanLines(lines, inHtmlReport, cfg) ==
  IF lines = <<>> THEN cfg
  ELSE LET line == Head(lines)
       IN IF isHeader(line) THEN scanLines(Tail(lines), TRUE, cfg)
          ELSE IF ~inHtmlReport THEN scanLines(Tail(lines), FALSE, cfg)
          ELSE IF leavesSection(line) THEN cfg
          ELSE LET m == keyMatch(line, KeySarifDir)
                   m2 == keyMatch(line, KeyOutput)
                   c1 == IF m.matched THEN [cfg EXCEPT !.sarifDir = Str(m.value)] ELSE cfg
                   c2 == IF m2.matched THEN [c1 EXCEPT !.output = Str(m2.value)] ELSE c1
               IN scanLines(Tail(lines), TRUE, c2)

NullConfig == [isNull |-> TRUE, sarifDir |-> Undefined, output |-> Undefined]

ScriptDir == <<"/","s">>
DefaultConfigPath ==
  pathJoin(ScriptDir,
           <<"c","o","d","e","q","l","-","c","o","n","f","i","g",".","y","m","l">>)

\* The file at path p on the disk of config files; absent when p is not there.
configFileAt(disk, p) ==
  IF p \in DOMAIN disk THEN disk[p] ELSE [exists |-> FALSE, lines |-> <<>>]

readHtmlReportConfig(configPath, disk) ==
  LET p == ToStr(OrElse(configPath, Str(DefaultConfigPath)))
      f == configFileAt(disk, p)
  IN IF ~f.exists THEN NullConfig
     ELSE LET cfg == scanLines(f.lines, FALSE,
                               [isNull |-> FALSE, sarifDir |-> Undefined, output |-> Undefined])
          IN IF Truthy(cfg.sarifDir) /\ Truthy(cfg.output) THEN cfg ELSE NullConfig

(***************************************************************************)
(* The entry point of each variant: argv is [a2, a3], process.argv[2..3].  *)
(***************************************************************************)
YmlSuffix == <<".","y","m","l">>
DefaultSarifDir == <<"c","o","d","e","q","l","-","r","e","s","u","l","t","s">>
DefaultOutFile ==
  <<"c","o","d","e","q","l","-","r","e","p","o","r","t",".","h","t","m","l">>

\* A plausible slip: the default config file is consulted only when no
\* argument is given, any argument standing for itself.
configPathOfAnyArgument(args) ==
  IF Truthy(args.a2) THEN args.a2 ELSE Undefined

\* process.argv[2] && process.argv[2].endsWith('.yml') ? process.argv[2] : null
configPathOf(args) ==
  IF Truthy(args.a2) /\ EndsWith(args.a2.s, YmlSuffix) THEN args.a2 ELSE Undefined

(***************************************************************************)
(* The program: one run of a script, from its arguments to the report.     *)
(*   variant    which script runs: "scripts" or "codeql"                   *)
(*   argv       process.argv[2] and process.argv[3]                        *)
(*   cfgDisk    the config files on disk, by path                          *)
(*   sarifTree  the directory that the resolved scan root names            *)
(*   pc         the position in the script                                 *)
(*   config, sarifDir, outFile   the entry point's constants               *)
(*   files, i, rows              collectResults' locals and loop position  *)
(*   written    the report file: <<>> or <<[path, html]>>                  *)
(*   logged     the console line: <<>> or <<[count, path]>>                *)
(***************************************************************************)
VARIABLES variant, argv, cfgDisk, sarifTree, pc, config, sarifDir, outFile,
          files, i, rows, written, logged

vars == <<variant, argv, cfgDisk, sarifTree, pc, config, sarifDir, outFile,
          files, i, rows, written, logged>>

inputs == <<variant, argv, cfgDisk, sarifTree>>

\* Lines 153-156 of the config-reading variant, 125-126 of the other.
Resolve ==
  /\ pc = "start"
  /\ config' = IF variant = "codeql"
               THEN readHtmlReportConfig(configPathOf(argv), cfgDisk)
               ELSE NullConfig
  /\ sarifDir' = IF ~config'.isNull THEN ToStr(config'.sarifDir)
                 ELSE ToStr(OrElse(argv.a2, Str(DefaultSarifDir)))
  /\ outFile' = IF ~config'.isNull THEN ToStr(config'.output)
                ELSE ToStr(OrElse(argv.a3, Str(DefaultOutFile)))
  /\ pc' = "locate"
  /\ UNCHANGED <<inputs, files, i, rows, written, logged>>

\* collectResults, up to the loop: rows = [], files = findSarifFiles(sarifDir).
Locate ==
  /\ pc = "locate"
  /\ files' = findSarifFiles(sarifDir, sarifTree)
  /\ rows' = <<>>
  /\ i' = 1
  /\ pc' = "collect"
  /\ UNCHANGED <<inputs, config, sarifDir, outFile, written, logged>>

\* One iteration of for (const file of files).
ProcessFile ==
  /\ pc = "collect"
  /\ i <= Len(files)
  /\ rows' = tryFile(files[i], rows)
  /\ i' = i + 1
  /\ UNCHANGED <<inputs, pc, config, sarifDir, outFile, files, written, logged>>

\* The loop is over: rows.sort(...) and return rows.
SortRows ==
  /\ pc = "collect"
  /\ i > Len(files)
  /\ rows' \in sortOutcomes(rows)
  /\ pc' = "render"
  /\ UNCHANGED <<inputs, config, sarifDir, outFile, files, i, written, logged>>

\* fs.writeFileSync(outFile, generateHtml(rows)) and the console line.
WriteReport ==
  /\ pc = "render"
  /\ written' = <<[path |-> outFile, html |-> generateHtml(rows)]>>
  /\ logged' = <<[count |-> Len(rows), path |-> outFile]>>
  /\ pc' = "done"
  /\ UNCHANGED <<inputs, config, sarifDir, outFile, files, i, rows>>

Next == Resolve \/ Locate \/ ProcessFile \/ SortRows \/ WriteReport

\* The state of the script before its first statement, for given inputs.
Started ==
  /\ pc = "start"
  /\ config = NullConfig
  /\ sarifDir = <<>>
  /\ outFile = <<>>
  /\ files = <<>>
  /\ i = 0
  /\ rows = <<>>
  /\ written = <<>>
  /\ logged = <<>>

(***************************************************************************)
(* Inputs.  Each specification starts the script on one family of inputs.  *)
(***************************************************************************)
MaxFiles == 3
MaxRuns == 2
MaxResults == 2
MaxSortRows == 3
MaxStrLen == 3
MaxLines == 4

SeqsUpTo(S, n) == UNION {[1..k -> S] : k \in 0..n}

NoArgs == [a2 |-> Undefined, a3 |-> Undefined]
NoConfigDisk == [p \in {DefaultConfigPath} |-> [exists |-> FALSE, lines |-> <<>>]]

NoLoc ==
  [hasPhys |-> FALSE, uri |-> Undefined, hasRegion |-> FALSE,
   startLine |-> Undefined, startColumn |-> Undefined]
StringMsg(chars) ==
  [t |-> "string", s |-> chars, text |-> Undefined, markdown |-> Undefined]
ObjectMsg(text, markdown) ==
  [t |-> "object", s |-> <<>>, text |-> text, markdown |-> markdown]
NoMsg == [t |-> "undefined", s |-> <<>>, text |-> Undefined, markdown |-> Undefined]

PlainResult ==
  [isNull |-> FALSE, ruleId |-> Str(<<"a">>), hasRule |-> FALSE,
   ruleRefId |-> Undefined, ruleRefLevel |-> Undefined,
   level |-> Str(LvlError), msg |-> StringMsg(<<"m">>), loc |-> NoLoc]
NullResult == [PlainResult EXCEPT !.isNull = TRUE]

Run(rules, results) == [isNull |-> FALSE, rules |-> rules, results |-> results]
NullRun == [isNull |-> TRUE, rules |-> <<>>, results |-> <<>>]

ErrText == <<"x">>
GoodJson(runs) == [badJson |-> FALSE, err |-> ErrText, isNull |-> FALSE, runs |-> runs]
BadJson(err) == [badJson |-> TRUE, err |-> err, isNull |-> FALSE, runs |-> <<>>]
NullJson == [badJson |-> FALSE, err |-> ErrText, isNull |-> TRUE, runs |-> <<>>]

FileEntry(name, content) ==
  [name |-> name, isDir |-> FALSE, children |-> <<>>, content |-> content]
DirEntry(name, children) ==
  [name |-> name, isDir |-> TRUE, children |-> children, content |-> NullJson]
Dir(entries) == [exists |-> TRUE, entries |-> entries]
MissingDir == [exists |-> FALSE, entries |-> <<>>]

Digits == <<"1","2","3","4","5","6","7","8","9">>
SarifName(k) == <<"f", Digits[k]>> \o SarifSuffix

\* Family 1: one file that is invalid JSON, a null document, or up to
\* MaxRuns runs of up to MaxResults plain and null results, with null runs
\* among them; or up to MaxFiles files, each invalid JSON, empty, whole, or
\* broken off by a null run after its first result.
CollectContents ==
  {BadJson(ErrText), NullJson}
  \cup {GoodJson(runs) :
          runs \in SeqsUpTo({NullRun}
                            \cup {Run(<<>>, rs) :
                                    rs \in SeqsUpTo({PlainResult, NullResult}, MaxResults)},
                            MaxRuns)}

NoteResult == [PlainResult EXCEPT !.ruleId = Str(<<"b">>), !.level = Str(LvlNote)]

FewContents ==
  {BadJson(ErrText),
   BadJson(<<"<","!">>),
   GoodJson(<<>>),
   GoodJson(<<Run(<<>>, <<NoteResult>>)>>),
   GoodJson(<<Run(<<>>, <<PlainResult>>), Run(<<>>, <<NoteResult, PlainResult>>)>>),
   GoodJson(<<Run(<<>>, <<PlainResult>>), NullRun>>)}

InitCollect ==
  /\ Started
  /\ variant \in {"scripts", "codeql"}
  /\ argv = NoArgs
  /\ cfgDisk = NoConfigDisk
  /\ \/ \E c \in CollectContents :
          sarifTree = Dir(<<FileEntry(SarifName(1), c)>>)
     \/ \E cs \in SeqsUpTo(FewContents, MaxFiles) :
          sarifTree = Dir([k \in 1..Len(cs) |-> FileEntry(SarifName(k), cs[k])])

SpecCollect == InitCollect /\ [][Next]_vars

\* Family 2: one file with one run of up to MaxSortRows results whose
\* levels are the three known ones (warning by default), an unknown one
\* and a key that object literals inherit.
LvlInfo == <<"i","n","f","o">>
SortResults ==
  {[PlainResult EXCEPT !.level = l, !.ruleId = Str(id)] :
     l \in {Str(LvlError), Undefined, Str(LvlNote), Str(LvlInfo), Str(KeyConstructor)},
     id \in {<<"a">>, <<"b">>}}

InitSort ==
  /\ Started
  /\ variant \in {"scripts", "codeql"}
  /\ argv = NoArgs
  /\ cfgDisk = NoConfigDisk
  /\ \E rs \in SeqsUpTo(SortResults, MaxSortRows) :
       sarifTree = Dir(<<FileEntry(SarifName(1), GoodJson(<<Run(<<>>, rs)>>))>>)

SpecSort == InitSort /\ [][Next]_vars

\* Family 3: one file holding one result, its fields drawn from the shapes
\* the accessors tell apart, with the characters HTML gives a meaning to;
\* or one file of invalid JSON whose name and error text hold them.
Rule(id, text) == [id |-> id, text |-> text]
PhysLoc(uri, hasRegion, line, col) ==
  [hasPhys |-> TRUE, uri |-> uri, hasRegion |-> hasRegion,
   startLine |-> line, startColumn |-> col]

RowRuleIds == {Undefined, Str(<<"a">>), Str(<<"<","&">>)}
RowRuleRefs ==
  {[has |-> FALSE, id |-> Undefined, level |-> Undefined],
   [has |-> TRUE, id |-> Undefined, level |-> Undefined],
   [has |-> TRUE, id |-> Str(<<"r">>), level |-> Str(LvlNote)],
   [has |-> TRUE, id |-> Str(<<"r">>), level |-> Undefined]}
RowLevels ==
  {Undefined, Str(LvlError), Str(<<"<","b",">">>), Str(KeyConstructor), Str(LvlInfo)}
RowMsgs ==
  {NoMsg, StringMsg(<<>>), StringMsg(<<"&","l","t",";">>),
   ObjectMsg(Str(<<"a",">">>), Undefined),
   ObjectMsg(Undefined, Str(<<"<","i",">","x","<","/","i",">","&">>)),
   ObjectMsg(Undefined, Undefined)}
RowLocs ==
  {NoLoc,
   PhysLoc(Str(<<"s","<">>), FALSE, Undefined, Undefined),
   PhysLoc(Undefined, TRUE, Str(<<"1","0">>), Str(<<"3">>)),
   PhysLoc(Str(<<"s","&">>), TRUE, Undefined, Undefined),
   PhysLoc(Str(<<"s">>), TRUE, Str(<<"<">>), Str(<<"\"">>))}
RowRules ==
  {<<>>,
   <<Rule(Str(<<"a">>), Str(<<"T","&">>))>>,
   <<Rule(Undefined, Str(<<"N">>))>>,
   <<Rule(Str(<<"a">>), Undefined)>>,
   <<Rule(Str(<<"a">>), Str(<<"T","1">>)), Rule(Str(<<"a">>), Str(<<"T","2">>))>>}

RowResults ==
  {[isNull |-> FALSE, ruleId |-> id, hasRule |-> ref.has, ruleRefId |-> ref.id,
    ruleRefLevel |-> ref.level, level |-> l, msg |-> m, loc |-> loc] :
     id \in RowRuleIds, ref \in RowRuleRefs, l \in RowLevels, m \in RowMsgs,
     loc \in RowLocs}

EscapeAlphabet == {"&", "<", ">", "\"", "l", "t", ";"}
EscapeStrings == SeqsUpTo(EscapeAlphabet, MaxStrLen)

\* The string s as the ruleId, the rule's short description or the message.
EscapeRuns ==
  {Run(IF f = "name" THEN <<Rule(Str(<<"a">>), Str(s))>> ELSE <<>>,
       <<[PlainResult EXCEPT
            !.ruleId = IF f = "ruleId" THEN Str(s) ELSE Str(<<"a">>),
            !.msg = IF f = "message" THEN StringMsg(s) ELSE StringMsg(<<"m">>)]>>) :
     s \in EscapeStrings, f \in {"ruleId", "message", "name"}}

BadNames == {SarifName(1), <<"a","&","b">> \o SarifSuffix, <<"<","i",">">> \o SarifSuffix}
BadErrs == {ErrText, <<"<","!">>}

InitRow ==
  /\ Started
  /\ variant \in {"scripts", "codeql"}
  /\ argv = NoArgs
  /\ cfgDisk = NoConfigDisk
  /\ \/ \E r \in RowResults, rules \in RowRules :
          sarifTree = Dir(<<FileEntry(SarifName(1), GoodJson(<<Run(rules, <<r>>)>>))>>)
     \/ \E run \in EscapeRuns :
          sarifTree = Dir(<<FileEntry(SarifName(1), GoodJson(<<run>>))>>)
     \/ \E n \in BadNames, e \in BadErrs :
          sarifTree = Dir(<<FileEntry(n, BadJson(e))>>)

SpecRow == InitRow /\ [][Next]_vars

\* Family 4: the arguments and the two config files the entry point can
\* read, over a scan root with a sub-directory and a file that is not SARIF.
LineHeader == <<"h","t","m","l","-","r","e","p","o","r","t",":">>
LineHeaderIndented == <<" "," ","h","t","m","l","-","r","e","p","o","r","t",":">>
LineSarifDir == <<" "," ","s","a","r","i","f","-","d","i","r",":"," ","r">>
LineSarifDirTop == <<"s","a","r","i","f","-","d","i","r",":"," ","r">>
LineOutput == <<" "," ","o","u","t","p","u","t",":"," ","o",".","h","t","m","l">>
LineOutputBlank == <<" "," ","o","u","t","p","u","t",":"," "," ">>
LineComment == <<"#"," ","c">>
LineOtherKey == <<"x",":"," ","1">>
LineListItem == <<"-"," ","y">>

ArgDir == <<"d">>
ArgOut == <<"o">>
ArgYml == <<"c">> \o YmlSuffix

ConfigFile(lines) == [exists |-> TRUE, lines |-> lines]
MissingFile == [exists |-> FALSE, lines |-> <<>>]
ValidConfigFile == ConfigFile(<<LineComment, LineHeader, LineSarifDir, LineOutput, LineOtherKey>>)
HalfConfigFile == ConfigFile(<<LineHeader, LineSarifDir, LineOtherKey, LineOutput>>)

EntryTree ==
  Dir(<<FileEntry(<<"n",".","t","x","t">>, BadJson(ErrText)),
        DirEntry(<<"s","u","b">>, <<FileEntry(SarifName(2), BadJson(ErrText))>>),
        FileEntry(SarifName(1), GoodJson(<<Run(<<>>, <<PlainResult>>)>>))>>)

InitEntry ==
  /\ Started
  /\ variant \in {"scripts", "codeql"}
  /\ argv \in [a2 : {Undefined, Str(<<>>), Str(ArgDir), Str(ArgYml)},
               a3 : {Undefined, Str(ArgOut)}]
  /\ \E f1, f2 \in {MissingFile, ValidConfigFile, HalfConfigFile} :
       cfgDisk = [p \in {DefaultConfigPath, ArgYml} |->
                    IF p = DefaultConfigPath THEN f1 ELSE f2]
  /\ sarifTree \in {MissingDir, Dir(<<>>), EntryTree}

SpecEntry == InitEntry /\ [][Next]_vars

\* Family 5: the config-reading variant given a config file of up to
\* MaxLines lines.
ConfigLines ==
  {LineHeader, LineHeaderIndented, LineSarifDir, LineSarifDirTop, LineOutput,
   LineOutputBlank, LineComment, LineOtherKey, LineListItem, <<>>}

InitConfig ==
  /\ Started
  /\ variant = "codeql"
  /\ argv = [a2 |-> Str(ArgYml), a3 |-> Undefined]
  /\ \E lines \in SeqsUpTo(ConfigLines, MaxLines) :
       cfgDisk = [p \in {DefaultConfigPath, ArgYml} |->
                    IF p = DefaultConfigPath THEN MissingFile ELSE ConfigFile(lines)]
  /\ sarifTree = Dir(<<FileEntry(SarifName(1), BadJson(ErrText))>>)

SpecConfig == InitConfig /\ [][Next]_vars

(***************************************************************************)
(* Properties                                                              *)
(***************************************************************************)
Finished == pc = "done"
Report == written[1].html

RECURSIVE SumOver(_, _)
\* The sum of f[k] for k in 1..n.
SumOver(f, n) == IF n = 0 THEN 0 ELSE f[n] + SumOver(f, n - 1)

\* The number of entries of the results lists of a file's runs.
ResultCount(file) ==
  SumOver([k \in 1..Len(file.runs) |-> Len(file.runs[k].results)], Len(file.runs))

\* A file whose contents gave no document to walk: invalid JSON, or JSON
\* that is not an object.
FailedToParse(file) == file.badJson \/ file.isNull

\* The entity that stands for a character in HTML text.
EntityOf(c) ==
  IF c = "&" THEN AmpEntity
  ELSE IF c = "<" THEN LtEntity
  ELSE IF c = ">" THEN GtEntity
  ELSE IF c = "\"" THEN QuotEntity
  ELSE <<c>>

RECURSIVE EntityEncode(_)
EntityEncode(s) == IF s = <<>> THEN <<>> ELSE EntityOf(Head(s)) \o EntityEncode(Tail(s))

\* No raw '<', '>' or '"', and every '&' starts one of the four entities.
NoRawMarkup(s) ==
  \A k \in 1..Len(s) :
    /\ s[k] \notin {"<", ">", "\""}
    /\ s[k] = "&" =>
         \E e \in {AmpEntity, LtEntity, GtEntity, QuotEntity} :
           StartsWith(SubSeq(s, k, Len(s)), e)

\* The characters of a row field, none for an undefined one.
CharsOf(v) == IF v.t = "undefined" THEN <<>> ELSE v.s

IsErrorRow(r) == r.name = Str(ParseErrorName)

\* Whether handling the file raises an error: at JSON.parse, or later at a
\* null document, run or result.
Raises(file) ==
  \/ FailedToParse(file)
  \/ \E k \in 1..Len(file.runs) :
       \/ file.runs[k].isNull
       \/ \E j \in 1..Len(file.runs[k].results) : file.runs[k].results[j].isNull

\* C1: the number of rows returned, of <tr> rows written and the count in
\* the header all equal the sum of the lengths of the results lists of the
\* runs of the files that parsed, plus one per file that failed to parse
\* (read either as a file that gave no document, or as any file whose
\* handling raised an error).
C1_RowCountIsResultCount ==
  pc \in {"render", "done"} =>
    LET expected(failed(_)) ==
          SumOver([k \in 1..Len(files) |->
                     IF failed(files[k]) THEN 1 ELSE ResultCount(files[k])],
                  Len(files))
    IN \E n \in {expected(FailedToParse), expected(Raises)} :
         /\ Len(rows) = n
         /\ Finished => Report.count = n /\ Len(Report.trs) = n

\* C3: the Rule ID, Rule and Message cells hold no raw markup character,
\* and each is the row's field with every character replaced by its entity
\* (so an '&' that begins an entity in the input is itself escaped).
C3_CellsAreEscaped ==
  Finished =>
    \A k \in 1..Len(rows) :
      LET tr == Report.trs[k]
      IN /\ NoRawMarkup(tr.ruleId) /\ NoRawMarkup(tr.name) /\ NoRawMarkup(tr.message)
         /\ tr.ruleId = EntityEncode(CharsOf(rows[k].ruleId))
         /\ tr.name = EntityEncode(CharsOf(rows[k].name))
         /\ tr.message = EntityEncode(CharsOf(rows[k].message))

\* A report whose message was the text of an entity and came out with its
\* '&' escaped, and whose other cells went through the same escaping.
C3_Witness ==
  /\ Finished
  /\ \E k \in 1..Len(rows) :
       /\ rows[k].message = Str(<<"&","l","t",";">>)
       /\ Report.trs[k].message = <<"&","a","m","p",";","l","t",";">>
       /\ rows[k].ruleId = Str(<<"<","&">>)
       /\ Report.trs[k].ruleId = <<"&","l","t",";","&","a","m","p",";">>

\* C4: a file of invalid JSON adds exactly one row, with ruleId "-", level
\* "error", the error text as message, the file's path as location and the
\* name "Parse error"; every located file is handled, and each contributes
\* the rows it yields on its own, wherever the failing file stands.
C4_ParseFailureIsIsolated ==
  pc \in {"render", "done"} =>
    /\ i = Len(files) + 1
    /\ \A k \in 1..Len(files) :
         files[k].badJson =>
           /\ Cardinality({j \in 1..Len(rows) : rows[j].location = Str(files[k].path)}) = 1
           /\ \E j \in 1..Len(rows) :
                rows[j] = [ruleId |-> Str(<<"-">>), level |-> Str(LvlError),
                           message |-> Str(files[k].err),
                           location |-> Str(files[k].path),
                           name |-> Str(ParseErrorName)]
    /\ Len(rows) = SumOver([k \in 1..Len(files) |-> Len(tryFile(files[k], <<>>))],
                           Len(files))

\* Two files, the first of invalid JSON, the second with a result: the
\* report holds the error row and the result's row.
C4_Witness ==
  /\ Finished
  /\ Len(files) = 2
  /\ files[1].badJson
  /\ ~FailedToParse(files[2]) /\ ResultCount(files[2]) >= 1
  /\ Len(rows) >= 2
  /\ \E j \in 1..Len(rows) : IsErrorRow(rows[j]) /\ rows[j].location = Str(files[1].path)
  /\ \E j \in 1..Len(rows) : ~IsErrorRow(rows[j])

\* C9: handling a file adds either one row per result of its runs and no
\* error row, or exactly one "Parse error" row and no result row.
C9_FileIsAllOrNothing ==
  [][(pc = "collect" /\ i' = i + 1) =>
       LET file == files[i]
           added == SubSeq(rows', Len(rows) + 1, Len(rows'))
       IN /\ SubSeq(rows', 1, Len(rows)) = rows
          /\ \/ /\ Len(added) = ResultCount(file)
                /\ \A k \in 1..Len(added) : ~IsErrorRow(added[k])
             \/ /\ Len(added) = 1
                /\ IsErrorRow(added[1])]_vars

\* The severity rank as the claim gives it.
ClaimedRank(level) ==
  LET k == ToStr(level)
  IN IF k = LvlError THEN 0
     ELSE IF k = LvlWarning THEN 1
     ELSE IF k = LvlNote THEN 2
     ELSE 3

\* after is before reordered by rank, rows of equal rank in their old order.
StablySorted(before, after) ==
  /\ Len(after) = Len(before)
  /\ \E p \in [1..Len(before) -> 1..Len(before)] :
       /\ \A a, b \in 1..Len(before) : a # b => p[a] # p[b]
       /\ \A a \in 1..Len(before) : after[a] = before[p[a]]
       /\ \A a, b \in 1..Len(before) :
            a < b =>
              /\ ClaimedRank(after[a].level) <= ClaimedRank(after[b].level)
              /\ ClaimedRank(after[a].level) = ClaimedRank(after[b].level) => p[a] < p[b]

\* C2: the sort returns the accumulated rows ordered by the rank error 0,
\* warning 1, note 2, anything else 3, a row of lower rank before every row
\* of higher rank and rows of equal rank in the order they were accumulated.
C2_SortIsStableByRank ==
  [][(pc = "collect" /\ pc' = "render") => StablySorted(rows, rows')]_vars

\* The config file the claim lets decide: the first argument's, when that
\* argument ends in .yml.
ArgIsYml == Truthy(argv.a2) /\ EndsWith(argv.a2.s, YmlSuffix)

PositionalPaths ==
  /\ sarifDir = (IF Truthy(argv.a2) THEN argv.a2.s ELSE DefaultSarifDir)
  /\ outFile = (IF Truthy(argv.a3) THEN argv.a3.s ELSE DefaultOutFile)

ConfigPaths ==
  /\ sarifDir = <<"r">>
  /\ outFile = <<"o",".","h","t","m","l">>

\* C5 as claimed: in the config-reading variant the config's paths are used
\* only when the first argument ends in .yml and its file yields a valid
\* config; in every other case the positional arguments or the defaults.
C5_ConfigOnlyFromYmlArgument ==
  (pc # "start" /\ variant = "codeql") =>
    IF ArgIsYml /\ configFileAt(cfgDisk, argv.a2.s) = ValidConfigFile
    THEN ConfigPaths ELSE PositionalPaths

\* C5 as amended: the config file read is the first argument when it ends
\* in .yml and codeql-config.yml in the script's directory otherwise; its
\* paths are used exactly when it exists and yields a valid config, and
\* otherwise the positional arguments, or the defaults where an argument is
\* absent or empty.
C5_ConfigFromArgumentOrScriptDir ==
  (pc # "start" /\ variant = "codeql") =>
    LET p == IF ArgIsYml THEN argv.a2.s ELSE DefaultConfigPath
    IN IF configFileAt(cfgDisk, p) = ValidConfigFile
       THEN ConfigPaths ELSE PositionalPaths

\* A run given a positional scan root whose paths came from the
\* codeql-config.yml next to the script.
C5_Witness ==
  /\ Finished
  /\ variant = "codeql"
  /\ argv.a2 = Str(ArgDir)
  /\ cfgDisk[DefaultConfigPath] = ValidConfigFile
  /\ ConfigPaths
  /\ written[1].path = <<"o",".","h","t","m","l">>

\* The location text of a result before any escaping.
RawLocation(result) ==
  LET loc == result.loc
  IN IF ~loc.hasPhys THEN Dash
     ELSE (IF Truthy(loc.uri) THEN loc.uri.s ELSE Dash)
          \o (IF ~loc.hasRegion THEN <<>>
              ELSE <<":">> \o (IF Truthy(loc.startLine) THEN loc.startLine.s ELSE Dash)
                   \o (IF loc.startColumn.t = "undefined" THEN <<>>
                       ELSE <<":">> \o loc.startColumn.s))

\* C6: the location put into the <code> element holds no raw markup
\* character and is the location text escaped once, for the row of a result
\* and for the row of a parse error alike.
C6_LocationIsEscapedOnce ==
  (Finished /\ Len(files) = 1 /\ Len(rows) = 1) =>
    LET cell == Report.trs[1].location
    IN /\ NoRawMarkup(cell)
       /\ cell = EntityEncode(IF IsErrorRow(rows[1]) THEN files[1].path
                              ELSE RawLocation(files[1].runs[1].results[1]))

\* C7: the name of a row built from a result is a string: the short
\* description of a rule of the run whose id is the result's ruleId when
\* that text is present, and the row's ruleId otherwise.
C7_NameFallsBackToRowRuleId ==
  (Finished /\ Len(files) = 1 /\ Len(rows) = 1 /\ ~IsErrorRow(rows[1])) =>
    LET result == files[1].runs[1].results[1]
        rules == files[1].runs[1].rules
        texts == {rules[j].text : j \in {n \in 1..Len(rules) :
                     rules[n].id = result.ruleId /\ Truthy(rules[n].text)}}
    IN /\ rows[1].name.t = "string"
       /\ IF texts # {} THEN rows[1].name \in texts
          ELSE rows[1].name = rows[1].ruleId

\* The header test as the claim words it: html-report: at column 0.
IsHeaderAtColumn0(line) ==
  /\ StartsWith(line, KeyHtmlReport)
  /\ LET rest == trimStart(dropFirst(line, Len(KeyHtmlReport)))
     IN rest # <<>> /\ Head(rest) = ":"

\* A column-0 line that is not a comment.
IsColumn0NonComment(line) ==
  line # <<>> /\ ~IsSpace(Head(line)) /\ Head(line) # "#"

\* The scan as the claim describes it.
RECURSIVE ClaimedScan(_, _, _)
ClaimedScan(lines, inside, cfg) ==
  IF lines = <<>> THEN cfg
  ELSE LET line == Head(lines)
       IN IF IsHeaderAtColumn0(line) THEN ClaimedScan(Tail(lines), TRUE, cfg)
          ELSE IF ~inside THEN ClaimedScan(Tail(lines), FALSE, cfg)
          ELSE IF IsColumn0NonComment(line) THEN cfg
          ELSE LET m == keyMatch(line, KeySarifDir)
                   m2 == keyMatch(line, KeyOutput)
                   c1 == IF m.matched THEN [cfg EXCEPT !.sarifDir = Str(m.value)] ELSE cfg
                   c2 == IF m2.matched THEN [c1 EXCEPT !.output = Str(m2.value)] ELSE c1
               IN ClaimedScan(Tail(lines), TRUE, c2)

ClaimedConfig(f) ==
  IF ~f.exists THEN NullConfig
  ELSE LET cfg == ClaimedScan(f.lines, FALSE,
                              [isNull |-> FALSE, sarifDir |-> Undefined, output |-> Undefined])
       IN IF Truthy(cfg.sarifDir) /\ Truthy(cfg.output) THEN cfg ELSE NullConfig

\* C8: the config read is the one the described scan yields: the section
\* is entered only at an html-report: line at column 0, the two keys are
\* captured inside it, it ends at the first column-0 line that is not a
\* comment, and both fields are returned exactly when both were captured.
C8_ConfigScanAsDescribed ==
  (pc # "start" /\ ArgIsYml) => config = ClaimedConfig(configFileAt(cfgDisk, argv.a2.s))

\* C10: the Severity cell and the class attribute hold no raw markup
\* character: a fixed label and class for error, warning and note, and for
\* any other level the class "low" and a label that cannot inject markup.
C10_SeverityCellIsSafe ==
  Finished =>
    \A k \in 1..Len(rows) :
      LET tr == Report.trs[k]
          l == ToStr(rows[k].level)
      IN /\ NoRawMarkup(tr.class) /\ NoRawMarkup(tr.severity)
         /\ l = LvlError => tr.class = ClassCritical /\ tr.severity = LabelError
         /\ l = LvlWarning => tr.class = ClassHigh /\ tr.severity = LabelWarning
         /\ l = LvlNote => tr.class = ClassMedium /\ tr.severity = LabelNote
         /\ l \notin {LvlError, LvlWarning, LvlNote} => tr.class = ClassLow

====
